---- MODULE Spec2Model ----
(***************************************************************************)
(* Model of the request-routing pipeline of python_api/router.py:          *)
(* route_request, get_structured_analysis, format_response, together with  *)
(* web_search (python_api/tools.py) and LlmClient.chat                     *)
(* (python_api/llm_client.py) as the two external collaborators.           *)
(*                                                                         *)
(* A Python str is a sequence of one-character strings.  Fixed text that   *)
(* the code writes as one literal and that no operation looks inside is    *)
(* kept as one element (a fragment) of the sequence.                       *)
(***************************************************************************)
EXTENDS Integers, Sequences, FiniteSets, TLC

\* ---------------------------------------------------------------- bounds
\* Number of fragments an output is assembled from.
MaxOutputPieces == 2
\* Length of the texts over {"*", "a"} given to format_response.
MaxStarLen == 4
\* Length of the whitespace between a fence and the document in it.
MaxPad == 1

\* ------------------------------------------------------- str primitives
\* s.startswith(p)
StartsWith(s, p) == Len(p) <= Len(s) /\ SubSeq(s, 1, Len(p)) = p

\* sub in s
Contains(s, sub) ==
    \E i \in 1..(Len(s) - Len(sub) + 1) : SubSeq(s, i, i + Len(sub) - 1) = sub

UpperAlpha == <<"A","B","C","D","E","F","G","H","I","J","K","L","M",
                "N","O","P","Q","R","S","T","U","V","W","X","Y","Z">>
LowerAlpha == <<"a","b","c","d","e","f","g","h","i","j","k","l","m",
                "n","o","p","q","r","s","t","u","v","w","x","y","z">>

LowerChar(c) ==
    IF \E i \in 1..Len(UpperAlpha) : UpperAlpha[i] = c
    THEN LowerAlpha[CHOOSE i \in 1..Len(UpperAlpha) : UpperAlpha[i] = c]
    ELSE c

\* s.lower()
Lower(s) == [i \in 1..Len(s) |-> LowerChar(s[i])]

\* The characters str.strip() and str.split() treat as whitespace
\* (the ASCII ones; "\\v" stands for U+000B, "\\x1c".."\\x1f" for the
\* information separators).
PyWhitespace == {" ", "\t", "\n", "\r", "\f", "\\v", "\\x1c", "\\x1d", "\\x1e", "\\x1f"}

\* The characters str.splitlines() breaks lines at.
LineBreaks == {"\n", "\r", "\f", "\\v", "\\x1c", "\\x1d", "\\x1e",
               "\\x85", "\\u2028", "\\u2029"}

RECURSIVE LStrip(_)
LStrip(s) ==
    IF s # <<>> /\ Head(s) \in PyWhitespace THEN LStrip(Tail(s)) ELSE s

RECURSIVE RStrip(_)
RStrip(s) ==
    IF s # <<>> /\ s[Len(s)] \in PyWhitespace
    THEN RStrip(SubSeq(s, 1, Len(s) - 1))
    ELSE s

\* s.strip()
Strip(s) == RStrip(LStrip(s))

\* s.split(): the maximal runs of non-whitespace characters, in order.
RECURSIVE SplitFrom(_, _, _)
SplitFrom(s, cur, acc) ==
    IF s = <<>>
    THEN IF cur = <<>> THEN acc ELSE Append(acc, cur)
    ELSE IF Head(s) \in PyWhitespace
         THEN SplitFrom(Tail(s), <<>>, IF cur = <<>> THEN acc ELSE Append(acc, cur))
         ELSE SplitFrom(Tail(s), Append(cur, Head(s)), acc)

Split(s) == SplitFrom(s, <<>>, <<>>)

\* s.splitlines(): lines without their line breaks; "\r\n" is one break;
\* a break at the very end opens no further line.
RECURSIVE SplitLinesFrom(_, _, _)
SplitLinesFrom(s, cur, acc) ==
    IF s = <<>>
    THEN IF cur = <<>> THEN acc ELSE Append(acc, cur)
    ELSE IF Head(s) \in LineBreaks
         THEN IF Head(s) = "\r" /\ Len(s) >= 2 /\ s[2] = "\n"
              THEN SplitLinesFrom(Tail(Tail(s)), <<>>, Append(acc, cur))
              ELSE SplitLinesFrom(Tail(s), <<>>, Append(acc, cur))
         ELSE SplitLinesFrom(Tail(s), Append(cur, Head(s)), acc)

SplitLines(s) == SplitLinesFrom(s, <<>>, <<>>)

\* s.replace(old, "", 1): only the first occurrence is removed.
RemoveFirst(s, old) ==
    IF \E i \in 1..(Len(s) - Len(old) + 1) : SubSeq(s, i, i + Len(old) - 1) = old
    THEN LET i == CHOOSE i \in 1..(Len(s) - Len(old) + 1) :
                    /\ SubSeq(s, i, i + Len(old) - 1) = old
                    /\ \A j \in 1..(i - 1) : SubSeq(s, j, j + Len(old) - 1) # old
         IN SubSeq(s, 1, i - 1) \o SubSeq(s, i + Len(old), Len(s))
    ELSE s

\* s.replace(old, ""): the occurrences of old are found left to right,
\* none overlapping the one before it, and removed.
RECURSIVE Remove(_, _)
Remove(s, old) ==
    IF s = <<>> THEN <<>>
    ELSE IF StartsWith(s, old)
         THEN Remove(SubSeq(s, Len(old) + 1, Len(s)), old)
         ELSE <<Head(s)>> \o Remove(Tail(s), old)

\* s[7:-3]
Slice7m3(s) == SubSeq(s, 8, Len(s) - 3)

\* str(i) for a natural number i
RECURSIVE Decimal(_)
Decimal(i) ==
    LET d == <<"0","1","2","3","4","5","6","7","8","9">>[(i % 10) + 1]
    IN IF i < 10 THEN <<d>> ELSE Append(Decimal(i \div 10), d)

\* ------------------------------------------------------ JSON documents
\* A value json.loads returns: str, int, None, list or dict.  Every value
\* carries the same fields: s is the text of a str or the digits of an int,
\* items the elements of a list or the values of a dict, keys the keys of a
\* dict (in insertion order, each a str).
JStr(s) == [t |-> "str", s |-> s, items |-> <<>>, keys |-> <<>>]
JInt(digits) == [t |-> "int", s |-> digits, items |-> <<>>, keys |-> <<>>]
JNull == [t |-> "null", s |-> <<>>, items |-> <<>>, keys |-> <<>>]
JList(items) == [t |-> "list", s |-> <<>>, items |-> items, keys |-> <<>>]
JObj(keys, items) == [t |-> "dict", s |-> <<>>, items |-> items, keys |-> keys]

Quote == "\""
Digits == {"0","1","2","3","4","5","6","7","8","9"}
\* The whitespace the JSON grammar allows between tokens.
JsonWhitespace == {" ", "\t", "\n", "\r"}
\* Characters a JSON string may not hold unescaped, and the escape itself.
JsonStringStops == {"\\", "\n", "\r", "\t", "\f", "\\v", "\\x1c", "\\x1d", "\\x1e", "\\x1f"}

\* The text of a JSON document for a value (what the model writes on the
\* Chat side), with the separators "," and ":".
RECURSIVE Dumps(_)
RECURSIVE DumpsItems(_)
RECURSIVE DumpsMembers(_, _)
Dumps(v) ==
    CASE v.t = "str" -> <<Quote>> \o v.s \o <<Quote>>
      [] v.t = "int" -> v.s
      [] v.t = "null" -> <<"n","u","l","l">>
      [] v.t = "list" -> <<"[">> \o DumpsItems(v.items) \o <<"]">>
      [] v.t = "dict" -> <<"{">> \o DumpsMembers(v.keys, v.items) \o <<"}">>
DumpsItems(items) ==
    IF items = <<>> THEN <<>>
    ELSE Dumps(Head(items)) \o
         (IF Len(items) > 1 THEN <<",">> \o DumpsItems(Tail(items)) ELSE <<>>)
DumpsMembers(keys, items) ==
    IF keys = <<>> THEN <<>>
    ELSE <<Quote>> \o Head(keys) \o <<Quote, ":">> \o Dumps(Head(items)) \o
         (IF Len(keys) > 1 THEN <<",">> \o DumpsMembers(Tail(keys), Tail(items))
          ELSE <<>>)

\* A parse step's result: the value and the position after it, or failure.
ParseFail == [ok |-> FALSE, val |-> JNull, pos |-> 0]
ParseOk(v, p) == [ok |-> TRUE, val |-> v, pos |-> p]

RECURSIVE SkipWs(_, _)
SkipWs(s, i) ==
    IF i <= Len(s) /\ s[i] \in JsonWhitespace THEN SkipWs(s, i + 1) ELSE i

\* The position of the quote closing the string opened before i, or 0.
RECURSIVE StringEnd(_, _)
StringEnd(s, i) ==
    IF i > Len(s) \/ s[i] \in JsonStringStops THEN 0
    ELSE IF s[i] = Quote THEN i ELSE StringEnd(s, i + 1)

RECURSIVE DigitsEnd(_, _)
DigitsEnd(s, i) ==
    IF i <= Len(s) /\ s[i] \in Digits THEN DigitsEnd(s, i + 1) ELSE i

\* dict assignment d[k] = v: a key already present keeps its place.
DictSet(d, k, v) ==
    IF \E n \in 1..Len(d.keys) : d.keys[n] = k
    THEN LET n == CHOOSE n \in 1..Len(d.keys) : d.keys[n] = k
         IN JObj(d.keys, [d.items EXCEPT ![n] = v])
    ELSE JObj(Append(d.keys, k), Append(d.items, v))

\* The decoder of json.loads, for documents built of objects, arrays,
\* strings without escapes, non-negative integers and null.
RECURSIVE ParseValue(_, _)
RECURSIVE ParseElements(_, _, _)
RECURSIVE ParseMembers(_, _, _)
ParseValue(s, i) ==
    IF i > Len(s) THEN ParseFail
    ELSE CASE s[i] = Quote ->
                LET e == StringEnd(s, i + 1)
                IN IF e = 0 THEN ParseFail
                   ELSE ParseOk(JStr(SubSeq(s, i + 1, e - 1)), e + 1)
           [] s[i] = "[" ->
                LET j == SkipWs(s, i + 1)
                IN IF j <= Len(s) /\ s[j] = "]" THEN ParseOk(JList(<<>>), j + 1)
                   ELSE ParseElements(s, j, <<>>)
           [] s[i] = "{" ->
                LET j == SkipWs(s, i + 1)
                IN IF j <= Len(s) /\ s[j] = "}" THEN ParseOk(JObj(<<>>, <<>>), j + 1)
                   ELSE ParseMembers(s, j, JObj(<<>>, <<>>))
           [] s[i] \in Digits ->
                LET e == DigitsEnd(s, i)
                IN IF s[i] = "0" /\ e > i + 1 THEN ParseOk(JInt(<<"0">>), i + 1)
                   ELSE ParseOk(JInt(SubSeq(s, i, e - 1)), e)
           [] s[i] = "n" ->
                IF i + 3 <= Len(s) /\ SubSeq(s, i, i + 3) = <<"n","u","l","l">>
                THEN ParseOk(JNull, i + 4)
                ELSE ParseFail
           [] OTHER -> ParseFail
ParseElements(s, i, acc) ==
    LET r == ParseValue(s, i)
    IN IF ~r.ok THEN ParseFail
       ELSE LET j == SkipWs(s, r.pos)
            IN IF j > Len(s) THEN ParseFail
               ELSE IF s[j] = "]" THEN ParseOk(JList(Append(acc, r.val)), j + 1)
               ELSE IF s[j] = ","
                    THEN ParseElements(s, SkipWs(s, j + 1), Append(acc, r.val))
                    ELSE ParseFail
ParseMembers(s, i, acc) ==
    IF i > Len(s) \/ s[i] # Quote THEN ParseFail
    ELSE LET k == ParseValue(s, i)
         IN IF ~k.ok THEN ParseFail
            ELSE LET c == SkipWs(s, k.pos)
                 IN IF c > Len(s) \/ s[c] # ":" THEN ParseFail
                    ELSE LET r == ParseValue(s, SkipWs(s, c + 1))
                         IN IF ~r.ok THEN ParseFail
                            ELSE LET j == SkipWs(s, r.pos)
                                     d == DictSet(acc, k.val.s, r.val)
                                 IN IF j > Len(s) THEN ParseFail
                                    ELSE IF s[j] = "}" THEN ParseOk(d, j + 1)
                                    ELSE IF s[j] = ","
                                         THEN ParseMembers(s, SkipWs(s, j + 1), d)
                                         ELSE ParseFail

\* json.loads(s): the one value of the document, with whitespace allowed
\* around it and nothing else after it; ok = FALSE is json.JSONDecodeError.
Loads(s) ==
    LET r == ParseValue(s, SkipWs(s, 1))
    IN IF r.ok /\ SkipWs(s, r.pos) = Len(s) + 1 THEN r ELSE ParseFail

\* ---------------------------------------------------- what a call yields
\* A call either returns a text or raises an exception.
Return(text) == [kind |-> "return", text |-> text, exc |-> "none"]
Raise(exc) == [kind |-> "raise", text |-> <<>>, exc |-> exc]

\* ------------------------------------------------- router.py constants
COMPLEX_COMMANDS == { <<"g","i","t">>, <<"d","o","c","k","e","r">>,
                      <<"k","u","b","e","c","t","l">>, <<"f","f","m","p","e","g">>,
                      <<"o","p","e","n","s","s","l">>, <<"r","s","y","n","c">> }

LOG_KEYWORDS == { <<"e","r","r","o","r">>, <<"e","x","c","e","p","t","i","o","n">>,
                  <<"f","a","i","l","e","d">>, <<"t","r","a","c","e","b","a","c","k">>,
                  <<"w","a","r","n","i","n","g">> }

\* ------------------------------------------------------ format_response
K_title == <<"t","i","t","l","e">>
K_command == <<"c","o","m","m","a","n","d">>
K_analysis == <<"a","n","a","l","y","s","i","s">>
K_recommendations == <<"r","e","c","o","m","m","e","n","d","a","t","i","o","n","s">>

DefaultTitle == <<"S","o","u","l","C","L","I"," ","A","n","a","l","y","s","i","s">>
Marker == <<"*", "*">>

\* "-" * 40
RuleWidth == 40
Rule == [i \in 1..RuleWidth |-> "-"]

\* d.get(key, default)
DictGet(d, key, default) ==
    IF \E n \in 1..Len(d.keys) : d.keys[n] = key
    THEN d.items[CHOOSE n \in 1..Len(d.keys) : d.keys[n] = key]
    ELSE default

\* The text an f-string puts in for a value: str(v).  The repr of a str
\* inside a list or dict is the text in single quotes (texts here hold no
\* quote and no escape).
RECURSIVE PyRepr(_)
RECURSIVE PyReprItems(_)
RECURSIVE PyReprMembers(_, _)
PyRepr(v) ==
    CASE v.t = "str" -> <<"'">> \o v.s \o <<"'">>
      [] v.t = "int" -> v.s
      [] v.t = "null" -> <<"N","o","n","e">>
      [] v.t = "list" -> <<"[">> \o PyReprItems(v.items) \o <<"]">>
      [] v.t = "dict" -> <<"{">> \o PyReprMembers(v.keys, v.items) \o <<"}">>
PyReprItems(items) ==
    IF items = <<>> THEN <<>>
    ELSE PyRepr(Head(items)) \o
         (IF Len(items) > 1 THEN <<",", " ">> \o PyReprItems(Tail(items)) ELSE <<>>)
PyReprMembers(keys, items) ==
    IF keys = <<>> THEN <<>>
    ELSE <<"'">> \o Head(keys) \o <<"'", ":", " ">> \o PyRepr(Head(items)) \o
         (IF Len(keys) > 1
          THEN <<",", " ">> \o PyReprMembers(Tail(keys), Tail(items))
          ELSE <<>>)

PyStr(v) == IF v.t = "str" THEN v.s ELSE PyRepr(v)

\* What iterating over a value yields, as a sequence of values: the
\* elements of a list, the characters of a str, the keys of a dict.
Iterate(v) ==
    CASE v.t = "list" -> v.items
      [] v.t = "str" -> [i \in 1..Len(v.s) |-> JStr(<<v.s[i]>>)]
      [] v.t = "dict" -> [i \in 1..Len(v.keys) |-> JStr(v.keys[i])]
      [] OTHER -> <<>>

\* The lines "   {i}. {rec}\n" of the recommendations, from ordinal i on.
RECURSIVE RecommendationLines(_, _)
RecommendationLines(recs, i) ==
    IF recs = <<>> THEN <<>>
    ELSE <<"   ">> \o Decimal(i) \o <<".", " ">> \o Head(recs) \o <<"\n">>
         \o RecommendationLines(Tail(recs), i + 1)

\* The report built from the four texts (router.py lines 23-31).
Layout(title, command, analysis, recommendations) ==
    <<"\\u2728", " ">> \o title \o <<"\n">>
    \o Rule \o <<"\n", "\n">>
    \o <<"\\u27a1\\ufe0f", " ", "Command:", "\n", "   ">> \o command \o <<"\n", "\n">>
    \o Rule \o <<"\n", "\n">>
    \o <<"\\U0001f4a1", " ", "Analysis:", "\n", "   ">> \o analysis \o <<"\n", "\n">>
    \o Rule \o <<"\n", "\n">>
    \o <<"\\u2705", " ", "Recommendations:", "\n">>
    \o RecommendationLines(recommendations, 1)

\* format_response reading data[key] where the code reads data.get(key, default).
format_response_strict(data) ==
    IF data.t # "dict" THEN Raise("AttributeError")
    ELSE IF \E key \in {K_title, K_command, K_analysis, K_recommendations} :
               \A n \in 1..Len(data.keys) : data.keys[n] # key
         THEN Raise("KeyError")
         ELSE Return(Layout(PyStr(DictGet(data, K_title, JNull)),
                            PyStr(DictGet(data, K_command, JNull)),
                            Remove(DictGet(data, K_analysis, JNull).s, Marker),
                            [i \in 1..Len(DictGet(data, K_recommendations, JNull).items) |->
                                Remove(DictGet(data, K_recommendations, JNull).items[i].s, Marker)]))

\* format_response(data), data being any value json.loads may return.
format_response(data) ==
    IF data.t # "dict" THEN Raise("AttributeError")
    ELSE LET title == DictGet(data, K_title, JStr(DefaultTitle))
             command == DictGet(data, K_command, JStr(<<>>))
             analysis == DictGet(data, K_analysis, JStr(<<>>))
             recs == DictGet(data, K_recommendations, JList(<<>>))
             each == Iterate(recs)
         IN IF analysis.t # "str" THEN Raise("AttributeError")
            ELSE IF recs.t \notin {"list", "str", "dict"} THEN Raise("TypeError")
            ELSE IF \E i \in 1..Len(each) : each[i].t # "str"
                 THEN Raise("AttributeError")
            ELSE Return(Layout(PyStr(title), PyStr(command),
                               Remove(analysis.s, Marker),
                               [i \in 1..Len(each) |-> Remove(each[i].s, Marker)]))

\* ---------------------------------------------- get_structured_analysis
\* The character U+0060.
Backtick == "\\x60"
FenceOpen == <<Backtick, Backtick, Backtick, "j", "s", "o", "n">>
FenceClose == <<Backtick, Backtick, Backtick>>
DecodeError == <<"Error: Could not decode the analysis from the LLM.">>
\* The system prompt, one literal.
SystemPrompt == <<"You are a helpful assistant for a developer terminal. ...">>

\* LlmClient.chat: the text of the candidates, or "(no text)" for none.
ChatResult(text) == IF text = <<>> THEN <<"(no text)">> ELSE text

\* The fence left in place.
TextResponseKeepFence(reply_text) == reply_text

\* Lines 54-55: the text handed to json.loads.
TextResponse(reply_text) ==
    IF StartsWith(reply_text, FenceOpen)
    THEN Strip(Slice7m3(reply_text))
    ELSE reply_text

\* Lines 50-59 of get_structured_analysis, on the text of the Chat reply.
StructuredAnalysis(reply_text) ==
    LET json_response == Loads(TextResponse(reply_text))
    IN IF json_response.ok THEN format_response(json_response.val)
       ELSE Return(DecodeError)

\* ---------------------------------------------------------- web_search
SearchErrorPrefix == <<"Error performing web search: ">>

\* What the search service does with a query: it answers with a text, or
\* the call fails with a description.
SearchOutcomes == { [ok |-> TRUE, text |-> <<"d","o","c","s">>],
                    [ok |-> TRUE, text |-> <<>>],
                    [ok |-> FALSE, text |-> <<"q","u","o","t","a">>] }
NoSearch == [ok |-> TRUE, text |-> <<"(no search)">>]

\* A web_search whose except clause is missing.
web_search_uncaught(outcome) ==
    IF outcome.ok THEN Return(outcome.text) ELSE Raise("Exception")

\* web_search(query), given what the service does: the try returns
\* result.text, the except returns the prefixed description.
web_search(outcome) ==
    IF outcome.ok THEN Return(outcome.text)
    ELSE Return(SearchErrorPrefix \o outcome.text)

\* -------------------------------------------------------- route_request
\* any(keyword in text.lower() for keyword in LOG_KEYWORDS)
HasLogKeyword(text) == \E keyword \in LOG_KEYWORDS : Contains(Lower(text), keyword)

\* The for loop of lines 71-80: the index of the first line it returns
\* from, 0 when it runs to its end.
RECURSIVE FirstLogLineFrom(_, _)
FirstLogLineFrom(lines, i) ==
    IF i > Len(lines) THEN 0
    ELSE IF HasLogKeyword(lines[i]) THEN i
    ELSE FirstLogLineFrom(lines, i + 1)

\* The loop testing the line as it is, not lower-cased.
FirstLogLineCaseSensitive(lines) ==
    IF \E i \in 1..Len(lines) : \E k \in LOG_KEYWORDS : Contains(lines[i], k)
    THEN CHOOSE i \in 1..Len(lines) :
            /\ \E k \in LOG_KEYWORDS : Contains(lines[i], k)
            /\ \A j \in 1..(i - 1) : ~ \E k \in LOG_KEYWORDS : Contains(lines[j], k)
    ELSE 0

\* The loop keeping the last matching line instead of returning at the first.
LastLogLine(lines) ==
    IF \E i \in 1..Len(lines) : HasLogKeyword(lines[i])
    THEN CHOOSE i \in 1..Len(lines) :
            /\ HasLogKeyword(lines[i])
            /\ \A j \in (i + 1)..Len(lines) : ~HasLogKeyword(lines[j])
    ELSE 0

FirstLogLine(lines) == FirstLogLineFrom(lines, 1)

\* The tests with the command name looked at before the output.
ClassifyComplexFirst(command_name, output) ==
    IF command_name \in COMPLEX_COMMANDS THEN "complex"
    ELSE IF HasLogKeyword(output) THEN "log"
    ELSE "simple"

\* The tests with the complex-command branch falling through to the default.
ClassifyNoComplex(command_name, output) ==
    IF HasLogKeyword(output) THEN "log" ELSE "simple"

\* The order of the three tests of route_request.
Classify(command_name, output) ==
    IF HasLogKeyword(output) THEN "log"
    ELSE IF command_name \in COMPLEX_COMMANDS THEN "complex"
    ELSE "simple"

PromptHead(command, output) ==
    <<"The user ran the command '">> \o command
    \o <<"' and got the following output:", "\n", "---", "\n">> \o output
    \o <<"\n", "---", "\n">>

LogPrompt(command, output, found) ==
    PromptHead(command, output)
    \o <<"I performed a web search for the error and got this result:",
         "\n", "---", "\n">> \o found \o <<"\n", "---", "\n">>
    \o <<"Please analyze this and provide recommendations.">>

ComplexPrompt(command, output, found) ==
    PromptHead(command, output)
    \o <<"I performed a web search for the command and got this documentation:",
         "\n", "---", "\n">> \o found \o <<"\n", "---", "\n">>
    \o <<"Please analyze the output based on the documentation and provide recommendations.">>

SimplePrompt(command, output) ==
    PromptHead(command, output)
    \o <<"Please provide a simple analysis of the output.">>

\* full_prompt of get_structured_analysis
FullPrompt(body) == SystemPrompt \o <<"\n", "\n">> \o body

LogQuery(line) == <<"how to fix error: ">> \o line
ComplexQuery(command) == <<"documentation for ">> \o command
NoLineFound == <<"Log analysis path, but no specific error line found.">>

\* --------------------------------------------------------------- inputs
\* A request's command is non-empty and its first whitespace-delimited
\* token is the command name; its output is any text.
Commands == { <<"g","i","t"," ","s","t","a","t","u","s">>,
              <<"d","o","c","k","e","r"," ","p","s">>,
              <<" ","r","s","y","n","c"," ","-","a">>,
              <<"l","s">>,
              <<"g","i","t","k">>,
              <<"s","u","d","o"," ","g","i","t">> }

OutputPieces == { <<"e","r","r">>, <<"o","r","\n">>, <<"E","r","r","o","r",":"," ","x","\n">>,
                  <<"\r">>, <<"t","o","t","a","l"," ","0","\n">>, <<"F","A","I","L","E","D">>,
                  <<"w","a","r","n","i","n","g">>, <<"o","k","\r","\n">> }

RECURSIVE PiecesUpTo(_)
PiecesUpTo(n) ==
    IF n = 0 THEN { <<>> }
    ELSE PiecesUpTo(n - 1) \cup
         { a \o b : a \in PiecesUpTo(n - 1), b \in OutputPieces }

Outputs == PiecesUpTo(MaxOutputPieces)

\* A well-formed analysis document, and the texts the Chat service answers
\* a routed request with.
GoodDoc == JObj(<<K_title, K_command, K_analysis, K_recommendations>>,
                <<JStr(<<"T">>), JStr(<<"c">>), JStr(<<"a">>), JList(<<JStr(<<"r","1">>)>>)>>)

ChatTexts == { Dumps(GoodDoc),
               FenceOpen \o <<"\n">> \o Dumps(GoodDoc) \o <<"\n">> \o FenceClose,
               <<"n","o","t"," ","j","s","o","n">>,
               <<"[", "]">>,
               <<>> }

\* The failures LlmClient.chat raises: the missing key, a rejected request.
ChatErrors == { "RuntimeError", "HTTPStatusError" }

\* ---------------------------------------------------------------- state
VARIABLES
    command,        \* route_request's argument
    output,         \* route_request's argument
    pc,             \* where the request is: "start", "search", "chat", "done"
    path,           \* the branch route_request took: "none" before it chose
    search_query,   \* the argument of the web_search call
    search_outcome, \* what the search service did with the query
    search_result,  \* what web_search returned
    prompt,         \* the full prompt given to client.chat
    reply,          \* result["text"] of the Chat call
    data,           \* json_response, the argument of format_response
    result,         \* what the call under study yielded
    calls           \* the external calls and their completions, in order

vars == <<command, output, pc, path, search_query, search_outcome,
          search_result, prompt, reply, data, result, calls>>

Pending == [kind |-> "pending", text |-> <<>>, exc |-> "none"]

Init ==
    /\ command \in Commands
    /\ output \in Outputs
    /\ pc = "start"
    /\ path = "none"
    /\ search_query = <<>>
    /\ search_outcome = NoSearch
    /\ search_result = <<>>
    /\ prompt = <<>>
    /\ reply = <<>>
    /\ data = JNull
    /\ result = Pending
    /\ calls = <<>>

\* route_request up to its first external call (lines 65-100).
RouteRequest ==
    /\ pc = "start"
    /\ LET command_parts == Split(command)
       IN IF command_parts = <<>>
          THEN \* command_parts[0]
               /\ result' = Raise("IndexError")
               /\ pc' = "done"
               /\ UNCHANGED <<path, search_query, prompt, calls>>
          ELSE LET command_name == command_parts[1]
                   chosen == Classify(command_name, output)
                   lines == SplitLines(output)
                   n == FirstLogLine(lines)
               IN /\ path' = chosen
                  /\ IF chosen = "log" /\ n = 0
                     THEN /\ result' = Return(NoLineFound)
                          /\ pc' = "done"
                          /\ UNCHANGED <<search_query, prompt, calls>>
                     ELSE IF chosen = "simple"
                     THEN /\ prompt' = FullPrompt(SimplePrompt(command, output))
                          /\ calls' = Append(calls, "chat_call")
                          /\ pc' = "chat"
                          /\ UNCHANGED <<search_query, result>>
                     ELSE /\ search_query' = IF chosen = "log"
                                             THEN LogQuery(lines[n])
                                             ELSE ComplexQuery(command)
                          /\ calls' = Append(calls, "search_call")
                          /\ pc' = "search"
                          /\ UNCHANGED <<prompt, result>>
    /\ UNCHANGED <<command, output, search_outcome, search_result, reply, data>>

\* The web_search call completes and route_request goes on to the Chat
\* call (lines 74-80 and 87-93).
WebSearch ==
    /\ pc = "search"
    /\ \E outcome \in SearchOutcomes :
         LET r == web_search(outcome)
         IN /\ search_outcome' = outcome
            /\ IF r.kind = "raise"
               THEN /\ result' = r
                    /\ pc' = "done"
                    /\ calls' = Append(calls, "search_raise")
                    /\ UNCHANGED <<search_result, prompt>>
               ELSE /\ search_result' = r.text
                    /\ prompt' = FullPrompt(IF path = "log"
                                            THEN LogPrompt(command, output, r.text)
                                            ELSE ComplexPrompt(command, output, r.text))
                    /\ calls' = calls \o <<"search_return", "chat_call">>
                    /\ pc' = "chat"
                    /\ UNCHANGED result
    /\ UNCHANGED <<command, output, path, search_query, reply, data>>

\* client.chat returns and get_structured_analysis finishes (lines 49-59).
ChatReturns ==
    /\ pc = "chat"
    /\ \E text \in ChatTexts :
         /\ reply' = ChatResult(text)
         /\ result' = StructuredAnalysis(ChatResult(text))
         /\ data' = Loads(TextResponse(ChatResult(text))).val
    /\ calls' = Append(calls, "chat_return")
    /\ pc' = "done"
    /\ UNCHANGED <<command, output, path, search_query, search_outcome,
                   search_result, prompt>>

\* client.chat raises; nothing between it and the caller catches.
ChatRaises ==
    /\ pc = "chat"
    /\ \E e \in ChatErrors : result' = Raise(e)
    /\ calls' = Append(calls, "chat_raise")
    /\ pc' = "done"
    /\ UNCHANGED <<command, output, path, search_query, search_outcome,
                   search_result, prompt, reply, data>>

Next == RouteRequest \/ WebSearch \/ ChatReturns \/ ChatRaises

Spec == Init /\ [][Next]_vars

\* ------------------------------------------- format_response on its own
\* Texts over {"*", "a"} of length at most n.
RECURSIVE StarTexts(_)
StarTexts(n) ==
    IF n = 0 THEN { <<>> }
    ELSE StarTexts(n - 1) \cup
         { Append(t, c) : t \in StarTexts(n - 1), c \in {"*", "a"} }

RecTexts == { <<"*","*","*">>, <<"r","*","*","*","*">>, <<"r","*">> }
RecLists == { <<>> } \cup { <<r>> : r \in RecTexts }
            \cup { <<r, q>> : r \in RecTexts, q \in RecTexts }

Absent == [t |-> "absent", s |-> <<>>, items |-> <<>>, keys |-> <<>>]

\* The dict holding the given fields, those that are not Absent.
MakeRecord(title, cmd, analysis, recs) ==
    LET ks == <<K_title, K_command, K_analysis, K_recommendations>>
        vs == <<title, cmd, analysis, recs>>
        IsThere(i) == vs[i] # Absent
        idx == SelectSeq(<<1, 2, 3, 4>>, IsThere)
    IN JObj([i \in 1..Len(idx) |-> ks[idx[i]]], [i \in 1..Len(idx) |-> vs[idx[i]]])

FormatRecords ==
    { MakeRecord(ti, co, an, re) :
        ti \in {Absent, JStr(<<"T">>)},
        co \in {Absent, JStr(<<"l","s">>)},
        an \in {Absent} \cup { JStr(t) : t \in StarTexts(MaxStarLen) },
        re \in {Absent} \cup { JList([i \in 1..Len(l) |-> JStr(l[i])]) : l \in RecLists } }

InitFormat ==
    /\ data \in FormatRecords
    /\ pc = "format"
    /\ command = <<>>
    /\ output = <<>>
    /\ path = "none"
    /\ search_query = <<>>
    /\ search_outcome = NoSearch
    /\ search_result = <<>>
    /\ prompt = <<>>
    /\ reply = <<>>
    /\ result = Pending
    /\ calls = <<>>

FormatResponse ==
    /\ pc = "format"
    /\ result' = format_response(data)
    /\ pc' = "done"
    /\ UNCHANGED <<command, output, path, search_query, search_outcome,
                   search_result, prompt, reply, data, calls>>

NextFormat == FormatResponse

SpecFormat == InitFormat /\ [][NextFormat]_vars

\* ----------------------------------- get_structured_analysis on its own
\* Whitespace of length at most n that a reply may hold around the document.
RECURSIVE Pads(_)
Pads(n) ==
    IF n = 0 THEN { <<>> }
    ELSE Pads(n - 1) \cup { Append(t, c) : t \in Pads(n - 1), c \in {" ", "\n", "\f"} }

InnerPads == Pads(MaxPad)
OuterPads == { <<>>, <<"\n">> }

\* The values the Chat service may put in its reply.
AnalysisDocs ==
    { GoodDoc,
      JObj(<<K_title>>, <<JStr(<<"T">>)>>),
      JObj(<<>>, <<>>),
      JObj(<<K_title, K_command, K_analysis, K_recommendations>>,
           <<JNull, JInt(<<"7">>), JStr(<<"*","*","a">>), JList(<<>>)>>),
      JObj(<<K_analysis>>, <<JInt(<<"5">>)>>),
      JObj(<<K_analysis>>, <<JNull>>),
      JObj(<<K_recommendations>>, <<JInt(<<"5">>)>>),
      JObj(<<K_recommendations>>, <<JList(<<JStr(<<"r">>), JInt(<<"1">>)>>)>>),
      JObj(<<K_recommendations>>, <<JStr(<<"a","b">>)>>),
      JList(<<>>),
      JList(<<GoodDoc>>),
      JInt(<<"5">>),
      JNull,
      JStr(<<"o","k">>) }

Fenced(in1, text, in2) == FenceOpen \o in1 \o text \o in2 \o FenceClose

AnalysisReplies ==
    { pre \o Dumps(d) \o post : pre \in OuterPads, post \in OuterPads, d \in AnalysisDocs }
    \cup { pre \o Fenced(in1, Dumps(d), in2) \o post :
             pre \in OuterPads, post \in OuterPads,
             in1 \in InnerPads, in2 \in InnerPads, d \in AnalysisDocs }
    \cup { <<"n","o","t"," ","j","s","o","n">>,
           Fenced(<<"\n">>, <<"n","o","t"," ","j","s","o","n">>, <<"\n">>),
           SubSeq(Dumps(GoodDoc), 1, Len(Dumps(GoodDoc)) - 1),
           FenceClose \o <<"\n">> \o Dumps(GoodDoc) \o <<"\n">> \o FenceClose,
           FenceOpen \o <<"\n">> \o Dumps(GoodDoc),
           <<>> }

InitAnalysis ==
    /\ reply \in { ChatResult(t) : t \in AnalysisReplies }
    /\ pc = "analyse"
    /\ prompt = FullPrompt(SimplePrompt(<<"l","s">>, <<>>))
    /\ command = <<>>
    /\ output = <<>>
    /\ path = "none"
    /\ search_query = <<>>
    /\ search_outcome = NoSearch
    /\ search_result = <<>>
    /\ data = JNull
    /\ result = Pending
    /\ calls = <<>>

\* get_structured_analysis with the Chat service answering reply.
GetStructuredAnalysis ==
    /\ pc = "analyse"
    /\ calls' = calls \o <<"chat_call", "chat_return">>
    /\ result' = StructuredAnalysis(reply)
    /\ data' = Loads(TextResponse(reply)).val
    /\ pc' = "done"
    /\ UNCHANGED <<command, output, path, search_query, search_outcome,
                   search_result, prompt, reply>>

NextAnalysis == GetStructuredAnalysis

SpecAnalysis == InitAnalysis /\ [][NextAnalysis]_vars

\* ============================================================== claims
\* The first whitespace-delimited token of s lies at i..j.
IsFirstToken(s, i, j) ==
    /\ i <= j /\ j <= Len(s)
    /\ \A k \in 1..(i - 1) : s[k] \in PyWhitespace
    /\ \A k \in i..j : s[k] \notin PyWhitespace
    /\ j = Len(s) \/ s[j + 1] \in PyWhitespace

FirstTokenIsComplex(s) ==
    \E i \in 1..Len(s) : \E j \in i..Len(s) :
        IsFirstToken(s, i, j) /\ SubSeq(s, i, j) \in COMPLEX_COMMANDS

\* Some stretch of text spells a log keyword when lower-cased.
SpellsLogKeyword(text) ==
    \E k \in LOG_KEYWORDS : \E i \in 1..Len(text) :
        /\ i + Len(k) - 1 <= Len(text)
        /\ Lower(SubSeq(text, i, i + Len(k) - 1)) = k

ExpectedPath ==
    IF SpellsLogKeyword(output) THEN "log"
    ELSE IF FirstTokenIsComplex(command) THEN "complex"
    ELSE "simple"

\* C1: once route_request has chosen, the path is log-analysis if the
\* lower-cased output contains a log keyword, otherwise complex-command if
\* the first whitespace-delimited token of command is a complex command,
\* otherwise simple-analysis; a complex command with a log keyword in its
\* output is routed as log-analysis.
C1_RoutingPriority ==
    pc # "start" => /\ path \in {"log", "complex", "simple"}
                    /\ path = ExpectedPath

C1_Witness ==
    /\ pc = "chat"
    /\ path = "log"
    /\ FirstTokenIsComplex(command)

IsIssue(e) == e \in {"search_call", "search_return", "chat_call"}
IsPrefix(a, b) == Len(a) <= Len(b) /\ SubSeq(b, 1, Len(a)) = a

ExpectedCalls ==
    IF SpellsLogKeyword(output) \/ FirstTokenIsComplex(command)
    THEN <<"search_call", "search_return", "chat_call">>
    ELSE <<"chat_call">>

\* C2: the external calls of a request are fixed by its path: on the
\* log-analysis and complex-command paths one Search call, its completion,
\* then one Chat call; on the simple path one Chat call and no Search call;
\* at no point more than that, and a finished request has made all of them.
C2_CallsFixedByPath ==
    /\ IsPrefix(SelectSeq(calls, IsIssue), ExpectedCalls)
    /\ pc = "done" => SelectSeq(calls, IsIssue) = ExpectedCalls

C2_Witness ==
    /\ pc = "done"
    /\ path = "complex"
    /\ calls = <<"search_call", "search_return", "chat_call", "chat_return">>

\* C3: route_request never raises: every request ends by returning a text.
C3_NeverRaises == result.kind # "raise"

\* C5: when the search fails, web_search returns the description behind
\* "Error performing web search: ", nothing is raised by the search, and
\* route_request embeds that text in the prompt and issues the Chat call as
\* it does for a successful search.
C5_SearchFailureEmbedded ==
    (pc \in {"chat", "done"} /\ ~search_outcome.ok) =>
        /\ StartsWith(search_result, SearchErrorPrefix)
        /\ search_result = SearchErrorPrefix \o search_outcome.text
        /\ Contains(prompt, <<"---", "\n">> \o search_result \o <<"\n", "---", "\n">>)
        /\ SelectSeq(calls, IsIssue) = <<"search_call", "search_return", "chat_call">>
        /\ path \in {"log", "complex"}

C5_Witness ==
    /\ pc = "done"
    /\ ~search_outcome.ok
    /\ result.kind = "return"
    /\ path = "log"

\* C9: on the log-analysis path the query is "how to fix error: " and the
\* first line of output that spells a log keyword, and the prompt of the
\* Chat call holds the command, the whole output and the search result.
C9_FirstMatchingLine ==
    (path = "log" /\ pc \in {"search", "chat", "done"}) =>
        LET lines == SplitLines(output)
        IN /\ \E i \in 1..Len(lines) :
                /\ SpellsLogKeyword(lines[i])
                /\ \A j \in 1..(i - 1) : ~SpellsLogKeyword(lines[j])
                /\ search_query = <<"how to fix error: ">> \o lines[i]
           /\ pc \in {"chat", "done"} =>
                /\ Contains(prompt, <<"The user ran the command '">> \o command \o <<"' and got the following output:">>)
                /\ Contains(prompt, <<"---", "\n">> \o output \o <<"\n", "---", "\n">>)
                /\ Contains(prompt, <<"---", "\n">> \o search_result \o <<"\n", "---", "\n">>)

C9_Witness ==
    LET lines == SplitLines(output)
    IN /\ path = "log"
       /\ pc = "chat"
       /\ Len(lines) = 2
       /\ SpellsLogKeyword(lines[1])
       /\ SpellsLogKeyword(lines[2])
       /\ lines[1] # lines[2]

\* C10: an output that spells a log keyword has a line that spells one, so
\* route_request never returns the "no specific error line found" text and
\* a finished log-analysis request has made its Search and Chat calls.
C10_FallbackUnreachable ==
    /\ SpellsLogKeyword(output) =>
          \E i \in 1..Len(SplitLines(output)) : SpellsLogKeyword(SplitLines(output)[i])
    /\ result.text # NoLineFound
    /\ (path = "log" /\ pc = "done") =>
          SelectSeq(calls, IsIssue) = <<"search_call", "search_return", "chat_call">>

C10_Witness ==
    /\ path = "log"
    /\ pc = "done"
    /\ Len(SplitLines(output)) >= 2
    /\ ~SpellsLogKeyword(SplitLines(output)[1])

\* The record with the missing keys filled in: title by the given text,
\* command and analysis by the empty text, recommendations by the empty list.
Completed(d, title) ==
    LET Has(key) == \E n \in 1..Len(d.keys) : d.keys[n] = key
        d1 == IF Has(K_title) THEN d ELSE DictSet(d, K_title, JStr(title))
        d2 == IF Has(K_command) THEN d1 ELSE DictSet(d1, K_command, JStr(<<>>))
        d3 == IF Has(K_analysis) THEN d2 ELSE DictSet(d2, K_analysis, JStr(<<>>))
    IN IF Has(K_recommendations) THEN d3 ELSE DictSet(d3, K_recommendations, JList(<<>>))

IsComplete(d) ==
    \A key \in {K_title, K_command, K_analysis, K_recommendations} :
        \E n \in 1..Len(d.keys) : d.keys[n] = key

\* C6 as claimed: format_response returns, for a record lacking keys, the
\* report of the record with the empty text for title, command and analysis
\* and the empty list for recommendations.
C6_AbsentFieldsEmpty ==
    pc = "done" => /\ result.kind = "return"
                   /\ result = format_response(Completed(data, <<>>))

\* C6 amended: format_response returns, for a record lacking keys, the
\* report of the record with "SoulCLI Analysis" for an absent title, the
\* empty text for an absent command or analysis and the empty list for
\* absent recommendations.
C6_AbsentFieldsDefault ==
    pc = "done" => /\ result.kind = "return"
                   /\ result = format_response(Completed(data, DefaultTitle))

C6_Witness ==
    /\ pc = "done"
    /\ data.keys = <<K_command>>
    /\ result.kind = "return"

\* The record with analysis and every recommendation cleaned once more.
CleanedAgain(d) ==
    JObj(d.keys,
         [n \in 1..Len(d.keys) |->
            IF d.keys[n] = K_analysis THEN JStr(Remove(d.items[n].s, Marker))
            ELSE IF d.keys[n] = K_recommendations
                 THEN JList([i \in 1..Len(d.items[n].items) |->
                               JStr(Remove(d.items[n].items[i].s, Marker))])
                 ELSE d.items[n]])

HasMarker(d) ==
    \E n \in 1..Len(d.keys) :
        \/ Contains(d.items[n].s, Marker)
        \/ \E i \in 1..Len(d.items[n].items) : Contains(d.items[n].items[i].s, Marker)

\* C7: the report holds no "**" (title and command holding none); cleaning
\* the cleaned texts again changes nothing of the report; and a record
\* without markers has its analysis and recommendations in the report as
\* they are.
C7_NoMarkerLeft ==
    pc = "done" =>
        /\ ~Contains(result.text, Marker)
        /\ format_response(CleanedAgain(CleanedAgain(data))) = format_response(CleanedAgain(data))
        /\ result = format_response(CleanedAgain(data))
        /\ ~HasMarker(data) =>
              /\ Contains(result.text,
                          <<"Analysis:", "\n", "   ">>
                          \o DictGet(data, K_analysis, JStr(<<>>)).s \o <<"\n", "\n">>)
              /\ \A i \in 1..Len(DictGet(data, K_recommendations, JList(<<>>)).items) :
                    Contains(result.text,
                             <<"   ">> \o Decimal(i) \o <<".", " ">>
                             \o DictGet(data, K_recommendations, JList(<<>>)).items[i].s
                             \o <<"\n">>)

C7_Witness ==
    /\ pc = "done"
    /\ DictGet(data, K_analysis, JStr(<<>>)).s = <<"*","*","*","a">>
    /\ DictGet(data, K_recommendations, JList(<<>>)).items
         = <<JStr(<<"r","*","*","*","*">>), JStr(<<"*","*","*">>)>>
    /\ Contains(result.text, <<"   ", "*", "a", "\n">>)

\* The reply has the expected shape: an object with texts for title, command
\* and analysis and a list of texts for recommendations.
WellShaped(v) ==
    /\ v.t = "dict"
    /\ IsComplete(v)
    /\ \A key \in {K_title, K_command, K_analysis} : DictGet(v, key, JNull).t = "str"
    /\ DictGet(v, K_recommendations, JNull).t = "list"
    /\ \A i \in 1..Len(DictGet(v, K_recommendations, JNull).items) :
          DictGet(v, K_recommendations, JNull).items[i].t = "str"

Malformed(text) ==
    \/ ~Loads(TextResponse(text)).ok
    \/ ~WellShaped(Loads(TextResponse(text)).val)

\* C4: for a malformed Chat reply (no JSON, or JSON of another shape than
\* expected) get_structured_analysis does not raise, returns the
\* decode-error text and has made one Chat call.
C4_MalformedRecovered ==
    (pc = "done" /\ Malformed(reply)) =>
        /\ result.kind = "return"
        /\ result.text = DecodeError
        /\ calls = <<"chat_call", "chat_return">>

====
